---- MODULE Spec2Model ----
(***************************************************************************)
(* kasedenv (src/src/lib.rs): case-insensitive and case-normalised reads   *)
(* of the process environment.                                             *)
(*                                                                         *)
(* A key is a sequence of characters.  The alphabet holds one ASCII letter *)
(* in both cases ("s", "S") and one non-ASCII letter, the German sharp s   *)
(* (U+00DF, written "sharp_s" here), which ASCII case operations leave     *)
(* alone, whose Unicode lowercase is itself, whose Unicode uppercase is    *)
(* the two letters "SS" and whose Unicode case fold is "ss".               *)
(*                                                                         *)
(* The environment is the platform's listing: an ordered sequence of       *)
(* (key, value) pairs with distinct keys.  Only textual variables are      *)
(* modelled (the crate reads env::vars(), which is textual).               *)
(***************************************************************************)
EXTENDS Naturals, Sequences, FiniteSets

VARIABLES
    unicode,   \* the build's cargo feature "unicode" (fixed for a whole run)
    env,       \* the process environment, in the platform's listing order
    it,        \* the live iterator: its kind and the env::Vars it wraps
    callEnv,   \* history: the environment when the live iterator was made
    yielded,   \* history: the pairs the live iterator has yielded so far
    changes,   \* history: environment changes since the live iterator was made
    ret        \* what the most recent library call returned

vars == <<unicode, env, it, callEnv, yielded, changes, ret>>

----------------------------------------------------------------------------
\* Bounds of the model.

MaxVars == 2

MaxKeyLen == 2

\* Environment changes explored while one iterator is live.
MaxChanges == 1

Chars == {"s", "S", "sharp_s"}

Values == {"world", "42"}

Keys == UNION {[1..n -> Chars] : n \in 1..MaxKeyLen}

----------------------------------------------------------------------------
\* Case operations of the standard library and of unicase, per character.

AsciiLowerChar(c) == IF c = "S" THEN "s" ELSE c

AsciiUpperChar(c) == IF c = "s" THEN "S" ELSE c

\* A lowercasing that stops after the first character.
to_ascii_lowercase_first(k) ==
    [i \in DOMAIN k |-> IF i = 1 THEN AsciiLowerChar(k[i]) ELSE k[i]]

to_ascii_lowercase(k) == [i \in DOMAIN k |-> AsciiLowerChar(k[i])]

to_ascii_uppercase(k) == [i \in DOMAIN k |-> AsciiUpperChar(k[i])]

\* A comparison that looks at the first character only.
eq_ignore_ascii_case_first(a, b) ==
    /\ Len(a) = Len(b)
    /\ a # <<>> => AsciiLowerChar(a[1]) = AsciiLowerChar(b[1])

eq_ignore_ascii_case(a, b) ==
    /\ Len(a) = Len(b)
    /\ \A i \in DOMAIN a : AsciiLowerChar(a[i]) = AsciiLowerChar(b[i])

\* str::to_lowercase: the sharp s is already lowercase.
to_lowercase(k) == [i \in DOMAIN k |-> IF k[i] = "S" THEN "s" ELSE k[i]]

\* str::to_uppercase: the sharp s expands to "SS".
RECURSIVE to_uppercase(_)
to_uppercase(k) ==
    IF k = <<>> THEN <<>>
    ELSE (IF Head(k) = "sharp_s" THEN <<"S", "S">>
          ELSE IF Head(k) = "s" THEN <<"S">>
          ELSE <<Head(k)>>) \o to_uppercase(Tail(k))

\* unicase's full case folding: the sharp s folds to "ss".
RECURSIVE CaseFold(_)
CaseFold(k) ==
    IF k = <<>> THEN <<>>
    ELSE (IF Head(k) = "sharp_s" THEN <<"s", "s">>
          ELSE IF Head(k) = "S" THEN <<"s">>
          ELSE <<Head(k)>>) \o CaseFold(Tail(k))

UniCase_eq(a, b) == CaseFold(a) = CaseFold(b)

\* Keys a caller may look up: every key, and every key's uppercase form
\* (which can be longer than the key).
LookupKeys == Keys \cup {to_uppercase(k) : k \in Keys}

----------------------------------------------------------------------------
\* The library.

\* A comparison that forgets to ignore case.
UncasedPartialEq_eq_exact(self, other) == self = other

\* UncasedPartialEq::eq, in the build's mode.
UncasedPartialEq_eq(self, other) ==
    IF unicode THEN UniCase_eq(self, other) ELSE eq_ignore_ascii_case(self, other)

\* The key mapping of LowerVars::next.
LowerKey(k) == IF unicode THEN to_lowercase(k) ELSE to_ascii_lowercase(k)

\* The key mapping of UpperVars::next.
UpperKey(k) == IF unicode THEN to_uppercase(k) ELSE to_ascii_uppercase(k)

\* The item the iterators' next() builds from a pair of env::Vars.
UncasedVars_item(kv) == [key |-> kv.key, val |-> kv.val]

\* Items whose key is passed through untransformed.
LowerVars_item_raw(kv) == [key |-> kv.key, val |-> kv.val]

UpperVars_item_raw(kv) == [key |-> kv.key, val |-> kv.val]

LowerVars_item(kv) == [key |-> LowerKey(kv.key), val |-> kv.val]

UpperVars_item(kv) == [key |-> UpperKey(kv.key), val |-> kv.val]

NoRet == [op |-> "none", key |-> <<>>, out |-> [ok |-> FALSE, val |-> ""]]

NotPresent == [ok |-> FALSE, val |-> "NotPresent"]

Ok(v) == [ok |-> TRUE, val |-> v]

NoIter == [kind |-> "none", vars |-> <<>>]

\* env::vars(): a snapshot of the environment at the time of the call.
env_vars == env

\* A scan that keeps the last match instead of stopping at the first.
RECURSIVE find_uncased_last(_, _)
find_uncased_last(items, key) ==
    IF items = <<>> THEN NotPresent
    ELSE IF UncasedPartialEq_eq(items[Len(items)].key, key)
         THEN Ok(items[Len(items)].val)
         ELSE find_uncased_last(SubSeq(items, 1, Len(items) - 1), key)

\* Iterator::find over UncasedVars with |(k, _)| k == &key, then ok_or.
RECURSIVE find_uncased(_, _)
find_uncased(items, key) ==
    IF items = <<>> THEN NotPresent
    ELSE IF UncasedPartialEq_eq(UncasedVars_item(Head(items)).key, key)
         THEN Ok(UncasedVars_item(Head(items)).val)
         ELSE find_uncased(Tail(items), key)

\* A scan that falls back to the first variable when nothing matches.
find_lower_or_first(items, key) ==
    LET M == {i \in DOMAIN items : LowerVars_item(items[i]).key = key}
    IN  IF M # {} THEN Ok(items[CHOOSE i \in M : \A j \in M : i <= j].val)
        ELSE IF items = <<>> THEN NotPresent ELSE Ok(items[1].val)

\* Iterator::find over LowerVars with |(k, _)| k == key, then ok_or.
RECURSIVE find_lower(_, _)
find_lower(items, key) ==
    IF items = <<>> THEN NotPresent
    ELSE IF LowerVars_item(Head(items)).key = key
         THEN Ok(LowerVars_item(Head(items)).val)
         ELSE find_lower(Tail(items), key)

\* Iterator::find over UpperVars with |(k, _)| k == key, then ok_or.
RECURSIVE find_upper(_, _)
find_upper(items, key) ==
    IF items = <<>> THEN NotPresent
    ELSE IF UpperVars_item(Head(items)).key = key
         THEN Ok(UpperVars_item(Head(items)).val)
         ELSE find_upper(Tail(items), key)

Init ==
    /\ unicode \in BOOLEAN
    /\ env = <<>>
    /\ it = NoIter
    /\ callEnv = <<>>
    /\ yielded = <<>>
    /\ changes = 0
    /\ ret = NoRet

\* The caller's side of an environment change: it is explored at most
\* MaxChanges times while an iterator is live.
Changed ==
    /\ it.kind # "none" => changes < MaxChanges
    /\ changes' = IF it.kind = "none" THEN 0 ELSE changes + 1
    /\ ret' = NoRet
    /\ UNCHANGED <<unicode, it, callEnv, yielded>>

\* env::set_var: replaces the value of an existing variable in place,
\* appends a new variable to the listing.
SetVar(k, v) ==
    /\ IF \E i \in DOMAIN env : env[i].key = k
       THEN env' = [i \in DOMAIN env |->
                       IF env[i].key = k THEN [key |-> k, val |-> v] ELSE env[i]]
       ELSE /\ Len(env) < MaxVars
            /\ env' = Append(env, [key |-> k, val |-> v])
    /\ Changed

\* env::remove_var: takes the variable out of the listing.
RemoveVar(k) ==
    /\ \E i \in DOMAIN env : env[i].key = k
    /\ env' = SelectSeq(env, LAMBDA kv : kv.key # k)
    /\ Changed

\* The look-ups.  They are explored while no iterator is live: they neither
\* read nor write the caller's iterator.
uncased_var(key) ==
    /\ it.kind = "none"
    /\ ret' = [op |-> "uncased_var", key |-> key, out |-> find_uncased(env_vars, key)]
    /\ UNCHANGED <<unicode, env, it, callEnv, yielded, changes>>

lower_var(key) ==
    /\ it.kind = "none"
    /\ ret' = [op |-> "lower_var", key |-> key, out |-> find_lower(env_vars, key)]
    /\ UNCHANGED <<unicode, env, it, callEnv, yielded, changes>>

\* A look-up that takes the variable it finds out of the environment.
upper_var_take(key) ==
    /\ it.kind = "none"
    /\ ret' = [op |-> "upper_var", key |-> key, out |-> find_upper(env_vars, key)]
    /\ env' = SelectSeq(env, LAMBDA kv : UpperVars_item(kv).key # key)
    /\ UNCHANGED <<unicode, it, callEnv, yielded, changes>>

upper_var(key) ==
    /\ it.kind = "none"
    /\ ret' = [op |-> "upper_var", key |-> key, out |-> find_upper(env_vars, key)]
    /\ UNCHANGED <<unicode, env, it, callEnv, yielded, changes>>

\* The enumerations: each wraps a fresh env::vars().
NewVars(kind, op) ==
    /\ it' = [kind |-> kind, vars |-> env_vars]
    /\ callEnv' = env
    /\ yielded' = <<>>
    /\ changes' = 0
    /\ ret' = [op |-> op, key |-> <<>>, out |-> [ok |-> TRUE, val |-> kind]]
    /\ UNCHANGED <<unicode, env>>

uncased_vars == NewVars("UncasedVars", "uncased_vars")

lower_vars == NewVars("LowerVars", "lower_vars")

upper_vars == NewVars("UpperVars", "upper_vars")

\* What next() returns at the end of the sequence.
EndOfVars == [op |-> "next", key |-> <<>>, out |-> [ok |-> FALSE, val |-> "None"]]

Some(item) == [op |-> "next", key |-> item.key, out |-> Ok(item.val)]

\* A next() that reads the live environment instead of its snapshot.
UncasedVars_next_live ==
    /\ it.kind = "UncasedVars"
    /\ IF Len(yielded) >= Len(env)
       THEN ret' = EndOfVars /\ UNCHANGED <<it, yielded>>
       ELSE /\ it' = it
            /\ yielded' = Append(yielded, UncasedVars_item(env[Len(yielded) + 1]))
            /\ ret' = Some(UncasedVars_item(env[Len(yielded) + 1]))
    /\ UNCHANGED <<unicode, env, callEnv, changes>>

UncasedVars_next ==
    /\ it.kind = "UncasedVars"
    /\ IF it.vars = <<>>
       THEN ret' = EndOfVars /\ UNCHANGED <<it, yielded>>
       ELSE /\ it' = [it EXCEPT !.vars = Tail(@)]
            /\ yielded' = Append(yielded, UncasedVars_item(Head(it.vars)))
            /\ ret' = Some(UncasedVars_item(Head(it.vars)))
    /\ UNCHANGED <<unicode, env, callEnv, changes>>

\* A next() that drops every pair that follows another.
LowerVars_next_skip ==
    /\ it.kind = "LowerVars"
    /\ IF it.vars = <<>>
       THEN ret' = EndOfVars /\ UNCHANGED <<it, yielded>>
       ELSE /\ it' = [it EXCEPT !.vars = IF Len(@) > 1 THEN Tail(Tail(@)) ELSE Tail(@)]
            /\ yielded' = Append(yielded, LowerVars_item(Head(it.vars)))
            /\ ret' = Some(LowerVars_item(Head(it.vars)))
    /\ UNCHANGED <<unicode, env, callEnv, changes>>

LowerVars_next ==
    /\ it.kind = "LowerVars"
    /\ IF it.vars = <<>>
       THEN ret' = EndOfVars /\ UNCHANGED <<it, yielded>>
       ELSE /\ it' = [it EXCEPT !.vars = Tail(@)]
            /\ yielded' = Append(yielded, LowerVars_item(Head(it.vars)))
            /\ ret' = Some(LowerVars_item(Head(it.vars)))
    /\ UNCHANGED <<unicode, env, callEnv, changes>>

UpperVars_next ==
    /\ it.kind = "UpperVars"
    /\ IF it.vars = <<>>
       THEN ret' = EndOfVars /\ UNCHANGED <<it, yielded>>
       ELSE /\ it' = [it EXCEPT !.vars = Tail(@)]
            /\ yielded' = Append(yielded, UpperVars_item(Head(it.vars)))
            /\ ret' = Some(UpperVars_item(Head(it.vars)))
    /\ UNCHANGED <<unicode, env, callEnv, changes>>

\* The iterator goes out of scope.
DropVars ==
    /\ it.kind # "none"
    /\ it' = NoIter
    /\ callEnv' = <<>>
    /\ yielded' = <<>>
    /\ changes' = 0
    /\ ret' = NoRet
    /\ UNCHANGED <<unicode, env>>

Next ==
    \/ \E k \in Keys, v \in Values : SetVar(k, v)
    \/ \E k \in Keys : RemoveVar(k)
    \/ \E key \in LookupKeys : uncased_var(key)
    \/ \E key \in LookupKeys : lower_var(key)
    \/ \E key \in LookupKeys : upper_var(key)
    \/ uncased_vars
    \/ lower_vars
    \/ upper_vars
    \/ UncasedVars_next
    \/ LowerVars_next
    \/ UpperVars_next
    \/ DropVars

Spec == Init /\ [][Next]_vars

----------------------------------------------------------------------------
\* Vocabulary of the properties.

LookupOps == {"uncased_var", "lower_var", "upper_var"}

\* The letter a character is a case of.
Letter(c) == IF c = "S" THEN "s" ELSE c

\* Same characters, possibly in a different letter case.
CasingVariant(a, b) ==
    /\ Len(a) = Len(b)
    /\ \A i \in DOMAIN a : Letter(a[i]) = Letter(b[i])

\* Equal ignoring case in the build's mode: ASCII letters only, or Unicode
\* case-insensitive comparison (where the sharp s equals "ss").
EqualIgnoringCase(a, b) ==
    IF unicode THEN CaseFold(a) = CaseFold(b) ELSE CasingVariant(a, b)

\* Whether a listed key matches the looked-up key under the look-up's mode.
MatchesUnder(op, k, key) ==
    CASE op = "uncased_var" -> EqualIgnoringCase(k, key)
      [] op = "lower_var" -> LowerKey(k) = key
      [] op = "upper_var" -> UpperKey(k) = key

Matching == {i \in DOMAIN env : MatchesUnder(ret.op, env[i].key, ret.key)}

First(S) == CHOOSE i \in S : \A j \in S : i <= j

\* The pair an enumeration of the given kind presents for a raw pair.
ModeItem(kind, kv) ==
    CASE kind = "UncasedVars" -> [key |-> kv.key, val |-> kv.val]
      [] kind = "LowerVars" -> [key |-> LowerKey(kv.key), val |-> kv.val]
      [] kind = "UpperVars" -> [key |-> UpperKey(kv.key), val |-> kv.val]

----------------------------------------------------------------------------
\* C1 as stated: for every environment, every variable K = V and every casing
\* variant K' of K, uncased_var(K') returns V.
C1_AnyVariantReturnsItsValue ==
    ret.op = "uncased_var" =>
        \A i \in DOMAIN env :
            CasingVariant(env[i].key, ret.key) => ret.out = Ok(env[i].val)

\* C1 amended: uncased_var(K') returns V for every casing variant K' of K
\* provided no variable listed before K has a key that equals K' ignoring
\* case (the first such variable is the one whose value is returned).
C1_FirstVariantReturnsItsValue ==
    ret.op = "uncased_var" =>
        \A i \in DOMAIN env :
            ( /\ CasingVariant(env[i].key, ret.key)
              /\ \A j \in 1..(i - 1) : ~EqualIgnoringCase(env[j].key, ret.key) )
            => ret.out = Ok(env[i].val)

C1_Witness ==
    /\ ret.op = "uncased_var"
    /\ Len(env) = 2
    /\ env[2].key # ret.key
    /\ CasingVariant(env[2].key, ret.key)
    /\ ~EqualIgnoringCase(env[1].key, ret.key)
    /\ ret.out = Ok(env[2].val)
    /\ env[1].val # env[2].val

\* C2 as stated: for every environment and every variable K = V,
\* lower_var(lowercase(K)) returns V.
C2_LowerReturnsItsValue ==
    ret.op = "lower_var" =>
        \A i \in DOMAIN env :
            ret.key = LowerKey(env[i].key) => ret.out = Ok(env[i].val)

\* C2 amended: lower_var(lowercase(K)) returns V provided no variable listed
\* before K has the same lowercased key.
C2_FirstLowerReturnsItsValue ==
    ret.op = "lower_var" =>
        \A i \in DOMAIN env :
            ( /\ ret.key = LowerKey(env[i].key)
              /\ \A j \in 1..(i - 1) : LowerKey(env[j].key) # ret.key )
            => ret.out = Ok(env[i].val)

C2_Witness ==
    /\ ret.op = "lower_var"
    /\ Len(env) = 2
    /\ env[2].key # ret.key
    /\ ret.key = LowerKey(env[2].key)
    /\ LowerKey(env[1].key) # ret.key
    /\ ret.out = Ok(env[2].val)
    /\ env[1].val # env[2].val

\* C3 as stated: for every environment and every variable K = V,
\* upper_var(uppercase(K)) returns V.
C3_UpperReturnsItsValue ==
    ret.op = "upper_var" =>
        \A i \in DOMAIN env :
            ret.key = UpperKey(env[i].key) => ret.out = Ok(env[i].val)

\* C3 amended: upper_var(uppercase(K)) returns V provided no variable listed
\* before K has the same uppercased key.
C3_FirstUpperReturnsItsValue ==
    ret.op = "upper_var" =>
        \A i \in DOMAIN env :
            ( /\ ret.key = UpperKey(env[i].key)
              /\ \A j \in 1..(i - 1) : UpperKey(env[j].key) # ret.key )
            => ret.out = Ok(env[i].val)

C3_Witness ==
    /\ ret.op = "upper_var"
    /\ Len(env) = 2
    /\ env[2].key # ret.key
    /\ ret.key = UpperKey(env[2].key)
    /\ UpperKey(env[1].key) # ret.key
    /\ ret.out = Ok(env[2].val)
    /\ env[1].val # env[2].val

\* C4: each of the three look-ups, for a key that no variable of the
\* environment carries in any casing, returns NotPresent and never a value.
C4_NeverSetIsNotPresent ==
    ( /\ ret.op \in LookupOps
      /\ \A i \in DOMAIN env : ~EqualIgnoringCase(env[i].key, ret.key) )
    => ret.out = NotPresent

C4_Witness ==
    /\ ret.op = "lower_var"
    /\ Len(env) = 2
    /\ \A i \in DOMAIN env : ~EqualIgnoringCase(env[i].key, ret.key)
    /\ \E i \in DOMAIN env : Len(env[i].key) = Len(ret.key)
    /\ ret.out = NotPresent

\* C5: an enumeration over an environment that is not changed meanwhile
\* yields the raw listing's pairs in order, values unchanged and keys
\* transformed per the mode, and ends after exactly as many pairs.
C5_EnumerationIsTheListing ==
    (it.kind # "none" /\ changes = 0) =>
        /\ Len(yielded) <= Len(env)
        /\ \A i \in DOMAIN yielded : yielded[i] = ModeItem(it.kind, env[i])
        /\ ret = EndOfVars => Len(yielded) = Len(env)

C5_Witness ==
    /\ it.kind = "LowerVars"
    /\ changes = 0
    /\ ret = EndOfVars
    /\ Len(yielded) = 2
    /\ yielded[1].key = env[1].key
    /\ yielded[2].key # env[2].key
    /\ yielded[1].val # yielded[2].val

\* C6: whatever happens to the environment after the enumerate call, the
\* pairs yielded are those of the environment at the time of the call.
C6_EnumerationIsASnapshot ==
    it.kind # "none" =>
        /\ Len(yielded) <= Len(callEnv)
        /\ \A i \in DOMAIN yielded : yielded[i] = ModeItem(it.kind, callEnv[i])
        /\ ret = EndOfVars => Len(yielded) = Len(callEnv)

C6_Witness ==
    /\ it.kind = "UncasedVars"
    /\ changes > 0
    /\ ret = EndOfVars
    /\ Len(yielded) = 2
    /\ Len(env) = 2
    /\ env[2].val # yielded[2].val

LibraryOps ==
    LookupOps \cup {"uncased_vars", "lower_vars", "upper_vars", "next"}

\* The step is a library call: it returns to the caller.
LibraryCall == ret'.op \in LibraryOps

\* C7: no library call (the enumerate functions, next() on their sequences,
\* the look-ups, found or NotPresent) changes the process environment.
C7_LibraryLeavesEnvironment == [][LibraryCall => env' = env]_vars

C7_Witness ==
    /\ ret.op = "upper_var"
    /\ ret.out.ok
    /\ Len(env) = 2

\* C8: when several variables match the looked-up key under the mode, the
\* look-up returns the value of the one listed first.
C8_FirstMatchWins ==
    (ret.op \in LookupOps /\ Matching # {}) =>
        ret.out = Ok(env[First(Matching)].val)

C8_Witness ==
    /\ ret.op = "uncased_var"
    /\ Cardinality(Matching) = 2
    /\ env[1].val # env[2].val
    /\ ret.out = Ok(env[1].val)

\* C9: in ASCII mode lower_var with a key holding an uppercase ASCII letter,
\* and upper_var with a key holding a lowercase ASCII letter, return
\* NotPresent, even when a variable of exactly that name is set.
C9_UnnormalisedKeyIsNotPresent ==
    ~unicode =>
        /\ (ret.op = "lower_var" /\ \E i \in DOMAIN ret.key : ret.key[i] = "S")
           => ret.out = NotPresent
        /\ (ret.op = "upper_var" /\ \E i \in DOMAIN ret.key : ret.key[i] = "s")
           => ret.out = NotPresent

C9_Witness ==
    /\ ~unicode
    /\ ret.op = "lower_var"
    /\ \E i \in DOMAIN ret.key : ret.key[i] = "S"
    /\ \E i \in DOMAIN env : env[i].key = ret.key
    /\ ret.out = NotPresent

\* The value of the first listed variable whose name is the key ignoring
\* ASCII case.
FirstIgnoringAsciiCase(key) ==
    LET M == {i \in DOMAIN env : CasingVariant(env[i].key, key)}
    IN  IF M = {} THEN NotPresent ELSE Ok(env[First(M)].val)

\* C10: in ASCII mode uncased_var(K), lower_var(ascii_lowercase(K)) and
\* upper_var(ascii_uppercase(K)) give the same result: the value of the
\* first listed variable whose name is K ignoring ASCII case, or NotPresent.
C10_AsciiLookupsAgree ==
    ~unicode =>
        /\ ret.op = "uncased_var" =>
              /\ ret.out = find_lower(env_vars, to_ascii_lowercase(ret.key))
              /\ ret.out = find_upper(env_vars, to_ascii_uppercase(ret.key))
              /\ ret.out = FirstIgnoringAsciiCase(ret.key)
        /\ (ret.op = "lower_var" /\ ret.key = to_ascii_lowercase(ret.key)) =>
              /\ ret.out = find_uncased(env_vars, ret.key)
              /\ ret.out = FirstIgnoringAsciiCase(ret.key)
        /\ (ret.op = "upper_var" /\ ret.key = to_ascii_uppercase(ret.key)) =>
              /\ ret.out = find_uncased(env_vars, ret.key)
              /\ ret.out = FirstIgnoringAsciiCase(ret.key)

C10_Witness ==
    /\ ~unicode
    /\ ret.op = "uncased_var"
    /\ ret.key # to_ascii_lowercase(ret.key)
    /\ ret.key # to_ascii_uppercase(ret.key)
    /\ Len(env) = 2
    /\ CasingVariant(env[2].key, ret.key)
    /\ env[2].key # ret.key
    /\ ret.out = Ok(env[2].val)

====
